---- MODULE Spec2Model ----
(***************************************************************************)
(* A model of quilt's package store (quilt/tools/store.py): the directory  *)
(* resolver, name validation, the contents tree and its hash, the object   *)
(* directory, and the save_file / save_df / install / clear_contents       *)
(* operations of a PackageStore handle, step by step at the granularity of *)
(* their filesystem effects, its reads get_contents / get / exists, and    *)
(* the choice of the store class by get_store.                             *)
(*                                                                         *)
(* Strings whose characters matter (names, dotted node names) are          *)
(* sequences of one-character strings.  File contents are sequences of     *)
(* chunks.  A digest is modelled as a collision-free function of content.  *)
(***************************************************************************)
EXTENDS Integers, Sequences, FiniteSets, TLC

VARIABLES
    roots,      \* the package roots on disk: marker directory path -> its files
    user,       \* self._user
    package,    \* self._package
    _path,      \* self._path: the marker directory holding the manifest, or None
    _pkg_dir,   \* self._pkg_dir
    pc,         \* the handle's position: "new", "idle", "failed" or a step label
    op,         \* the running (or last finished) operation and its locals
    result,     \* how the last finished operation ended
    nops,       \* operations started on the handle
    pub,        \* history: the saves that returned normally, in order
    onlySaves,  \* history: every operation so far was a save that returned normally
    located,    \* history: the resolver located the manifest when the handle was opened
    out,        \* what the last read of the handle (get_contents, get) gave
    start,      \* find_package_dirs: the canonical starting directory
    gen,        \* find_package_dirs: the generator's frame (path, yielded, done)
    calls,      \* package hash: the add_node calls to make on package A and on package B
    todoA,      \* package hash: calls not yet performed on package A
    todoB,      \* package hash: calls not yet performed on package B
    treeA,      \* package hash: manifest of package A
    treeB,      \* package hash: manifest of package B
    environ,    \* get_store: os.environ's QUILT_PACKAGE_FORMAT, or unset
    pkgformat,  \* get_store: the pkgformat argument, or None
    modules,    \* get_store: the optional modules that could be imported
    fmtDefault, \* get_store: PackageFormat.default.value
    backend,    \* get_store: the class of the store under construction
    writers,    \* two writers: each one's position, add_node arguments and tree
    wlog        \* two writers: history, the writers in the order of their dumps

vars == <<roots, user, package, _path, _pkg_dir, pc, op, result, nops, pub,
          onlySaves, located, out, start, gen, calls, todoA, todoB, treeA, treeB,
          environ, pkgformat, modules, fmtDefault, backend, writers, wlog>>

storeVars == <<roots, user, package, _path, _pkg_dir, pc, op, result, nops, pub,
               onlySaves, located, out>>
dirVars == <<start, gen>>
hashVars == <<calls, todoA, todoB, treeA, treeB>>
cfgVars == <<environ, pkgformat, modules, fmtDefault, backend>>
raceVars == <<writers, wlog>>

\* Python's None where a path is expected (no path is empty)
None == <<>>

-----------------------------------------------------------------------------
(* Bounds *)

\* operations started on one handle
MaxOps == 2
\* depth of the starting directory of the directory resolver
MaxDepth == 3
\* add_node calls made on each of the two packages whose hashes are compared
MaxCalls == 3
\* length of the user and package names tried
MaxNameLen == 2

-----------------------------------------------------------------------------
(* Characters and strings *)

\* the characters the model's strings are made of, in code point order
Alphabet == <<"\n", "-", ".", "/", "1", "_", "a", "b", "c">>

Letters == {"a", "b", "c"}
Digits == {"1"}

\* \w of the regular expression
IsWord(c) == c \in Letters \cup Digits \cup {"_"}

Ord(c) == CHOOSE i \in 1..Len(Alphabet) : Alphabet[i] = c

\* Python's str comparison s < t, used by sort_keys
StrLess(s, t) ==
    \E k \in 1..(Len(t)) :
        /\ \A i \in 1..(k - 1) : i <= Len(s) /\ s[i] = t[i]
        /\ \/ k = Len(s) + 1
           \/ k <= Len(s) /\ Ord(s[k]) < Ord(t[k])

\* VALID_NAME_RE.match(s) for r'^[a-zA-Z]\w*$': `$` matches at the end of the
\* string and also just before a newline that ends the string
VALID_NAME_RE(s) ==
    /\ Len(s) >= 1
    /\ s[1] \in Letters
    /\ \E j \in 1..Len(s) :
        /\ \A i \in 2..j : IsWord(s[i])
        /\ \/ j = Len(s)
           \/ j = Len(s) - 1 /\ s[Len(s)] = "\n"

RECURSIVE lstrip(_, _)
\* s.lstrip(ch)
lstrip(s, ch) ==
    IF s # <<>> /\ Head(s) = ch THEN lstrip(Tail(s), ch) ELSE s

\* s.replace(old, new) for one-character old and new
replace(s, old, new) ==
    [i \in 1..Len(s) |-> IF s[i] = old THEN new ELSE s[i]]

RECURSIVE split(_, _)
\* s.split(sep): the segments between separators, empty segments included
split(s, sep) ==
    IF \A i \in 1..Len(s) : s[i] # sep
    THEN <<s>>
    ELSE LET k == CHOOSE i \in 1..Len(s) :
                      s[i] = sep /\ \A j \in 1..(i - 1) : s[j] # sep
         IN <<SubSeq(s, 1, k - 1)>> \o split(SubSeq(s, k + 1, Len(s)), sep)

-----------------------------------------------------------------------------
(* Digests *)

\* the chunk values file contents are made of
Bytes == {1, 2}

\* digest_file(content): a collision-free digest, computed chunk by chunk
RECURSIVE digest_file(_)
digest_file(content) ==
    IF content = <<>> THEN 0
    ELSE digest_file(SubSeq(content, 1, Len(content) - 1)) * (Cardinality(Bytes) + 1)
             + content[Len(content)]

-----------------------------------------------------------------------------
(* The contents tree.  children is the dict of a GroupNode as a sequence of *)
(* <<key, node>> pairs in insertion order, keys pairwise different.         *)

\* a GroupNode carries no metadata
NoMeta == [q_ext |-> "", q_path |-> "", q_target |-> ""]

GroupNode(children) ==
    [type |-> "GROUP", children |-> children, hashes |-> <<>>, metadata |-> NoMeta]

TableNode(hashes, metadata) ==
    [type |-> "TABLE", children |-> <<>>, hashes |-> hashes, metadata |-> metadata]

FileNode(hashes, metadata) ==
    [type |-> "FILE", children |-> <<>>, hashes |-> hashes, metadata |-> metadata]

\* only a GroupNode has the attribute `children`
HasChildren(node) == node.type = "GROUP"

HasKey(children, k) == \E i \in 1..Len(children) : children[i][1] = k

\* children.get(k) for a key that is present
GetChild(children, k) ==
    children[CHOOSE i \in 1..Len(children) : children[i][1] = k][2]

\* an assignment that leaves a key that is present as it is
SetChildKeep(children, k, v) ==
    IF HasKey(children, k) THEN children ELSE Append(children, <<k, v>>)

\* children[k] = v: in place when the key is present, else appended
SetChild(children, k, v) ==
    IF HasKey(children, k)
    THEN [i \in 1..Len(children) |->
             IF children[i][1] = k THEN <<k, v>> ELSE children[i]]
    ELSE Append(children, <<k, v>>)

\* the values TargetType(target) accepts
TargetType == {"pandas", "file"}

RECURSIVE SortedPairs(_)
RECURSIVE SortKeys(_)
\* what json.dump(..., sort_keys=True) followed by json.load gives back:
\* the same tree with every dict in key order
SortKeys(node) ==
    IF HasChildren(node) THEN GroupNode(SortedPairs(node.children)) ELSE node

SortedPairs(children) ==
    IF children = <<>> THEN <<>>
    ELSE LET m == CHOOSE i \in 1..Len(children) :
                      \A j \in 1..Len(children) :
                          j # i => StrLess(children[i][1], children[j][1])
             rest == [i \in 1..(Len(children) - 1) |->
                         IF i < m THEN children[i] ELSE children[i + 1]]
         IN <<<<children[m][1], SortKeys(children[m][2])>>>> \o SortedPairs(rest)

\* hash_contents(contents): the digest of the key-sorted serialization of the
\* whole tree, the digest being collision-free
hash_contents(contents) == [sha256_of |-> SortKeys(contents)]

RECURSIVE WalkFails(_, _)
\* the loop `for node in ipath: ptr = ptr.children.setdefault(node, GroupNode())`
\* raises AttributeError when it reaches a node without children
WalkFails(ptr, ipath) ==
    IF ipath = <<>> THEN FALSE
    ELSE IF ~HasChildren(ptr) THEN TRUE
    ELSE IF HasKey(ptr.children, Head(ipath))
         THEN WalkFails(GetChild(ptr.children, Head(ipath)), Tail(ipath))
         ELSE FALSE

RECURSIVE WalkTarget(_, _)
\* the node the loop ends on (when it does not raise)
WalkTarget(ptr, ipath) ==
    IF ipath = <<>> THEN ptr
    ELSE IF HasKey(ptr.children, Head(ipath))
         THEN WalkTarget(GetChild(ptr.children, Head(ipath)), Tail(ipath))
         ELSE GroupNode(<<>>)

\* the child is set to a fresh group even when the key is present
SetDefaultFresh(children, k) == SetChild(children, k, GroupNode(<<>>))

\* setdefault(node, GroupNode(dict()))
SetDefault(children, k) ==
    IF HasKey(children, k) THEN children ELSE Append(children, <<k, GroupNode(<<>>)>>)

RECURSIVE SetLeaf(_, _, _, _)
\* the tree after the loop's setdefault calls and `ptr.children[leaf] = node`
SetLeaf(ptr, ipath, leaf, node) ==
    IF ipath = <<>> THEN GroupNode(SetChild(ptr.children, leaf, node))
    ELSE LET ch == SetDefault(ptr.children, Head(ipath))
         IN GroupNode(SetChild(ch, Head(ipath),
                 SetLeaf(GetChild(ch, Head(ipath)), Tail(ipath), leaf, node)))

\* _add_to_contents on the tree read from the manifest: the error raised, or
\* "ok" and the tree handed to save_contents
AddToContents(contents, fullname, objhash, ext, path, target) ==
    LET parts == split(fullname, ".")
        ipath == SubSeq(parts, 1, Len(parts) - 1)
        leaf == parts[Len(parts)]
        meta == [q_ext |-> ext, q_path |-> path, q_target |-> target]
        node == IF target = "pandas" THEN TableNode(<<objhash>>, meta)
                ELSE FileNode(<<objhash>>, meta)
    IN IF WalkFails(contents, ipath)
       THEN [err |-> "AttributeError", contents |-> contents]
       ELSE IF target \notin TargetType
       THEN [err |-> "Unrecognized target", contents |-> contents]
       ELSE IF ~HasChildren(WalkTarget(contents, ipath))
       THEN [err |-> "AttributeError", contents |-> contents]
       ELSE [err |-> "ok", contents |-> SetLeaf(contents, ipath, leaf, node)]

\* save_contents then get_contents: the manifest file holds the key-sorted tree
save_contents(contents) == SortKeys(contents)

\* a visit that does not descend into groups
LeafHashesFlat(node) ==
    LET leaves == SelectSeq(node.children, LAMBDA p : ~HasChildren(p[2]))
    IN IF leaves = <<>> THEN <<>> ELSE leaves[1][2].hashes
           \o (IF Len(leaves) > 1 THEN leaves[2][2].hashes ELSE <<>>)

RECURSIVE LeafHashes(_)
RECURSIVE PairsHashes(_)
\* install_tables: the download hashes in the order install_table meets them
LeafHashes(node) ==
    IF HasChildren(node) THEN PairsHashes(node.children) ELSE node.hashes

PairsHashes(children) ==
    IF children = <<>> THEN <<>>
    ELSE LeafHashes(children[1][2]) \o PairsHashes(Tail(children))

-----------------------------------------------------------------------------
(* The filesystem: package roots.  A root is keyed by the path of its marker *)
(* directory; objs and tmp map the names of the files present to content.   *)

PACKAGE_DIR_NAME == "quilt_packages"
OBJ_DIR == "objs"
TMP_OBJ_DIR == "objs/tmp"
USER_DIR == "user"

\* a manifest file that does not exist
NoFile == [type |-> "ABSENT", children |-> <<>>, hashes |-> <<>>, metadata |-> NoMeta]

\* a directory without files
NoFiles == [x \in {} |-> <<>>]

\* a marker directory that was just created, with nothing in it
EmptyRoot == [subdirs |-> {}, manifest |-> NoFile, objs |-> NoFiles, tmp |-> NoFiles]

\* f with file k holding content c
WriteFile(f, k, c) == [x \in DOMAIN f \cup {k} |-> IF x = k THEN c ELSE f[x]]

\* f without file k
RemoveFile(f, k) == [x \in DOMAIN f \ {k} |-> f[x]]

\* os.path.split(path) of a canonical absolute path; the root splits into itself
SplitPath(path) ==
    IF path = <<>> THEN [parent |-> <<>>, name |-> ""]
    ELSE [parent |-> SubSeq(path, 1, Len(path) - 1), name |-> path[Len(path)]]

\* the marker directory is yielded whatever the directory's own name is
YieldAtNoSkip(path, dirs) ==
    IF Append(path, "quilt_packages") \in dirs
    THEN <<Append(path, "quilt_packages")>>
    ELSE <<>>

\* the body of find_package_dirs's loop at `path`: what it yields there
YieldAt(path, dirs) ==
    IF SplitPath(path).name # PACKAGE_DIR_NAME
           /\ Append(path, PACKAGE_DIR_NAME) \in dirs
    THEN <<Append(path, PACKAGE_DIR_NAME)>>
    ELSE <<>>

RECURSIVE find_package_dirs(_, _)
\* everything the generator yields from `path` on, dirs being the directories
\* for which os.path.isdir is true
find_package_dirs(path, dirs) ==
    IF SplitPath(path).parent = path THEN YieldAt(path, dirs)
    ELSE YieldAt(path, dirs) \o find_package_dirs(SplitPath(path).parent, dirs)

\* os.path.exists of the manifest of the package under package_dir
ManifestExists(fs, package_dir) ==
    package_dir \in DOMAIN fs /\ fs[package_dir].manifest.type # "ABSENT"

\* _find_path_read after the names passed: the first yielded root that holds
\* the manifest, or None
FindPathRead(fs, cwd) ==
    LET pkg_dirs == find_package_dirs(cwd, DOMAIN fs)
        found == SelectSeq(pkg_dirs, LAMBDA d : ManifestExists(fs, d))
    IN IF found = <<>> THEN None ELSE found[1]

\* a write path in the farthest yielded root
FindPathWriteFarthest(fs, cwd) ==
    LET pkg_dirs == find_package_dirs(cwd, DOMAIN fs)
        package_dir == IF pkg_dirs = <<>> THEN Append(cwd, "quilt_packages")
                       ELSE pkg_dirs[Len(pkg_dirs)]
        old == IF package_dir \in DOMAIN fs THEN fs[package_dir] ELSE EmptyRoot
        new == [old EXCEPT !.subdirs = @ \cup {"user", "objs", "objs/tmp"}]
    IN [package_dir |-> package_dir,
        fs |-> [d \in DOMAIN fs \cup {package_dir} |->
                   IF d = package_dir THEN new ELSE fs[d]]]

\* _find_path_write after the names passed: the first yielded root, or the
\* marker directory of the current directory, with its subdirectories made
FindPathWrite(fs, cwd) ==
    LET pkg_dirs == find_package_dirs(cwd, DOMAIN fs)
        package_dir == IF pkg_dirs = <<>> THEN Append(cwd, PACKAGE_DIR_NAME)
                       ELSE pkg_dirs[1]
        old == IF package_dir \in DOMAIN fs THEN fs[package_dir] ELSE EmptyRoot
        new == [old EXCEPT !.subdirs = @ \cup {USER_DIR, OBJ_DIR, TMP_OBJ_DIR}]
    IN [package_dir |-> package_dir,
        fs |-> [d \in DOMAIN fs \cup {package_dir} |->
                   IF d = package_dir THEN new ELSE fs[d]]]

\* get_contents: the decoded manifest, or an empty group when opening it raises
\* IOError; open(None) raises TypeError, which is not caught
get_contents(fs, path) ==
    IF path = None THEN "TypeError"
    ELSE IF ManifestExists(fs, path) THEN fs[path].manifest
    ELSE GroupNode(<<>>)

-----------------------------------------------------------------------------
(* Inputs of the store operations *)

\* the directory the process runs in
Cwd == <<"home", "proj">>

UserName == <<"a">>
PackageName == <<"b">>

\* source files and serialized dataframes handed to save_file and save_df
SrcFiles == {<<1>>, <<1, 2>>}

\* node names handed to save_file and save_df: "a", "b", "b/c", "1a", "/a/b/c"
NodeNames == {<<"a">>, <<"b">>, <<"b", "/", "c">>, <<"1", "a">>,
              <<"/", "a", "/", "b", "/", "c">>}

\* target values handed to save_file and save_df
Targets == {"pandas", "file", "bogus"}

SrcPath == "data.csv"

\* paths handed to get: "a", "a/b", "b/a", "/b/c"
GetPaths == {<<"a">>, <<"a", "/", "b">>, <<"b", "/", "a">>, <<"/", "b", "/", "c">>}

\* bodies a download can deliver
DownloadBodies == {<<1>>, <<1, 2>>}

FileMeta == [q_ext |-> "", q_path |-> SrcPath, q_target |-> "file"]
TableMeta == [q_ext |-> "csv", q_path |-> SrcPath, q_target |-> "pandas"]

\* manifests handed to install: two leaves sharing one digest; a nested group
\* listed before a table, keys not in sorted order
InstallContents ==
    { GroupNode(<< <<(<<"a">>), FileNode(<<digest_file(<<1>>)>>, FileMeta)>>,
                   <<(<<"b">>), FileNode(<<digest_file(<<1>>)>>, FileMeta)>> >>),
      GroupNode(<< <<(<<"c">>), GroupNode(<< <<(<<"a">>),
                                   FileNode(<<digest_file(<<1>>)>>, FileMeta)>> >>)>>,
                   <<(<<"b">>), TableNode(<<digest_file(<<1, 2>>)>>, TableMeta)>> >>) }

\* a root left by an earlier build of the package: one file node and its object
BuiltRoot ==
    [subdirs |-> {USER_DIR, OBJ_DIR, TMP_OBJ_DIR},
     manifest |-> save_contents(AddToContents(GroupNode(<<>>), <<"a">>,
                      digest_file(<<1>>), "", SrcPath, "file").contents),
     objs |-> WriteFile(NoFiles, digest_file(<<1>>), <<1>>),
     tmp |-> NoFiles]

NearDir == Append(Cwd, PACKAGE_DIR_NAME)
FarDir == Append(SubSeq(Cwd, 1, Len(Cwd) - 1), PACKAGE_DIR_NAME)

\* the layouts the handle is opened in: no marker directory at all; the package
\* built in an ancestor's root; the same below a bare nearer marker directory;
\* the package built in the current directory's root
InitRoots ==
    { NoFiles,
      WriteFile(NoFiles, FarDir, BuiltRoot),
      WriteFile(WriteFile(NoFiles, FarDir, BuiltRoot), NearDir, EmptyRoot),
      WriteFile(NoFiles, NearDir, BuiltRoot) }

\* no operation is in progress; `bound` is the root the handle was bound to
\* (self._path) when the operation was called
NoOp ==
    [kind |-> "none", bound |-> None, name |-> <<>>, fullname |-> <<>>, content |-> <<>>,
     filehash |-> 0, ext |-> "", path |-> "", target |-> "",
     contents |-> GroupNode(<<>>), work |-> <<>>, body |-> <<>>, fetched |-> <<>>]

NoGen == [path |-> <<>>, yielded |-> <<>>, done |-> TRUE]

\* no read of the handle has been made since the last operation on it
NoOut == [call |-> "none", arg |-> <<>>, err |-> "none", node |-> NoFile, path |-> <<>>]

\* get_store is not being called: the store classes are constructed directly;
\* nor is a second writer at work on the package
NoCfg ==
    /\ environ = "unset"
    /\ pkgformat = "None"
    /\ modules = {}
    /\ fmtDefault = "HDF5"
    /\ backend = "PackageStore"
    /\ writers = <<>>
    /\ wlog = <<>>

Init ==
    /\ NoCfg
    /\ roots \in InitRoots
    /\ user = UserName
    /\ package = PackageName
    /\ _path = None
    /\ _pkg_dir = None
    /\ pc = "new"
    /\ op = NoOp
    /\ result = "none"
    /\ nops = 0
    /\ pub = <<>>
    /\ onlySaves = TRUE
    /\ located = FALSE
    /\ out = NoOut
    /\ start = Cwd
    /\ gen = NoGen
    /\ calls = [A |-> {}, B |-> {}]
    /\ todoA = {}
    /\ todoB = {}
    /\ treeA = GroupNode(<<>>)
    /\ treeB = GroupNode(<<>>)

-----------------------------------------------------------------------------
(* The handle *)

\* the operation ends: it returns normally ("ok") or raises `how`
Return(how) ==
    /\ pc' = "idle"
    /\ result' = how

\* PackageStore.__init__: _find_path_read
Open ==
    /\ pc = "new"
    /\ UNCHANGED <<roots, user, package, op, nops, pub, onlySaves, out, dirVars, hashVars, cfgVars, raceVars>>
    /\ located' = (VALID_NAME_RE(user) /\ VALID_NAME_RE(package)
                       /\ FindPathRead(roots, start) # None)
    /\ IF ~VALID_NAME_RE(user)
       THEN /\ pc' = "failed"
            /\ result' = "Invalid user name"
            /\ _path' = None
            /\ _pkg_dir' = None
       ELSE IF ~VALID_NAME_RE(package)
       THEN /\ pc' = "failed"
            /\ result' = "Invalid package name"
            /\ _path' = None
            /\ _pkg_dir' = None
       ELSE /\ Return("ok")
            /\ _path' = FindPathRead(roots, start)
            /\ _pkg_dir' = FindPathRead(roots, start)

\* the objects of the root the handle writes to
Objs == roots[_pkg_dir].objs

\* the log entry of the save that returns
Published == [content |-> op.content, digest |-> op.filehash, name |-> op.fullname]

\* roots with the object directory of the handle's root replaced
WithObjs(objs) == [roots EXCEPT ![_pkg_dir].objs = objs]

\* save_file, lines 124-126: the write path, the digest, the dotted name
SaveFileBegin ==
    /\ pc = "idle"
    /\ nops < MaxOps
    /\ \E srcfile \in SrcFiles, name \in NodeNames, target \in Targets :
        LET fw == FindPathWrite(roots, start)
        IN /\ roots' = fw.fs
           /\ _path' = fw.package_dir
           /\ _pkg_dir' = fw.package_dir
           /\ op' = [NoOp EXCEPT !.kind = "save_file", !.bound = _path,
                         !.name = name,
                         !.fullname = replace(lstrip(name, "/"), "/", "."),
                         !.content = srcfile, !.filehash = digest_file(srcfile),
                         !.path = SrcPath, !.target = target]
    /\ pc' = "sf_add"
    /\ nops' = nops + 1
    /\ UNCHANGED <<user, package, located, out, result, pub, onlySaves, dirVars, hashVars, cfgVars, raceVars>>

\* _add_to_contents, called by save_file and save_df: the manifest is read,
\* changed and saved whole, or an error leaves it as it was
AddNode(filehash, next) ==
    LET r == AddToContents(get_contents(roots, _path), op.fullname, filehash,
                           op.ext, op.path, op.target)
    IN IF r.err = "ok"
       THEN /\ roots' = [roots EXCEPT ![_path].manifest = save_contents(r.contents)]
            /\ pc' = next
            /\ UNCHANGED <<result, onlySaves>>
       ELSE /\ Return(r.err)
            /\ onlySaves' = FALSE
            /\ UNCHANGED roots

\* save_file, line 127
SaveFileAdd ==
    /\ pc = "sf_add"
    /\ AddNode(op.filehash, "sf_check")
    /\ UNCHANGED <<user, package, located, out, _path, _pkg_dir, op, nops, pub, dirVars, hashVars, cfgVars, raceVars>>

\* save_file returning without the copy
SaveFileNoCopy ==
    /\ pc = "sf_check"
    /\ Return("ok")
    /\ pub' = Append(pub, Published)
    /\ UNCHANGED <<roots, user, package, located, out, _path, _pkg_dir, op, nops, onlySaves,
                   dirVars, hashVars, cfgVars, raceVars>>

\* save_file, lines 128-130: nothing to do when the object exists; else
\* copyfile opens the destination, which creates it empty
SaveFileCheck ==
    /\ pc = "sf_check"
    /\ IF op.filehash \in DOMAIN Objs
       THEN /\ Return("ok")
            /\ pub' = Append(pub, Published)
            /\ UNCHANGED roots
       ELSE /\ roots' = WithObjs(WriteFile(Objs, op.filehash, <<>>))
            /\ pc' = "sf_copy"
            /\ UNCHANGED <<result, pub>>
    /\ UNCHANGED <<user, package, located, out, _path, _pkg_dir, op, nops, onlySaves, dirVars, hashVars, cfgVars, raceVars>>

\* copyfile writes the next chunk of the source; after the last one save_file returns
SaveFileCopy ==
    /\ pc = "sf_copy"
    /\ LET cur == Objs[op.filehash]
           nxt == SubSeq(op.content, 1, Len(cur) + 1)
       IN /\ roots' = WithObjs(WriteFile(Objs, op.filehash, nxt))
          /\ IF nxt = op.content
             THEN /\ Return("ok")
                  /\ pub' = Append(pub, Published)
             ELSE UNCHANGED <<pc, result, pub>>
    /\ UNCHANGED <<user, package, located, out, _path, _pkg_dir, op, nops, onlySaves, dirVars, hashVars, cfgVars, raceVars>>

\* the staged files of the root the handle writes to
Tmp == roots[_pkg_dir].tmp

\* save_df, lines 413-417 (436-439, 492-498): the write path, and the backend
\* writes the serialized dataframe to the staging path named after the node
SaveDfBegin ==
    /\ pc = "idle"
    /\ nops < MaxOps
    /\ \E df \in SrcFiles, name \in NodeNames, target \in Targets :
        LET fw == FindPathWrite(roots, start)
            buildfile == replace(lstrip(name, "/"), "/", ".")
        IN /\ roots' = [fw.fs EXCEPT ![fw.package_dir].tmp =
                                         WriteFile(@, buildfile, df)]
           /\ _path' = fw.package_dir
           /\ _pkg_dir' = fw.package_dir
           /\ op' = [NoOp EXCEPT !.kind = "save_df", !.bound = _path,
                         !.name = name,
                         !.fullname = buildfile, !.content = df, !.ext = "csv",
                         !.path = SrcPath, !.target = target]
    /\ pc' = "df_add"
    /\ nops' = nops + 1
    /\ UNCHANGED <<user, package, located, out, result, pub, onlySaves, dirVars, hashVars, cfgVars, raceVars>>

\* save_df, lines 418-419: the digest of the staged file, _add_to_contents
SaveDfAdd ==
    /\ pc = "df_add"
    /\ op' = [op EXCEPT !.filehash = digest_file(Tmp[op.fullname])]
    /\ AddNode(digest_file(Tmp[op.fullname]), "df_rename")
    /\ UNCHANGED <<user, package, located, out, _path, _pkg_dir, nops, pub, dirVars, hashVars, cfgVars, raceVars>>

\* a copy in place of the rename: the staged file stays
RenameCopies(objs, tmp, src, dst) ==
    [objs |-> WriteFile(objs, dst, tmp[src]), tmp |-> tmp]

\* os.rename(src, dst): dst holds what src held, replacing any file there
Rename(objs, tmp, src, dst) ==
    [objs |-> WriteFile(objs, dst, tmp[src]), tmp |-> RemoveFile(tmp, src)]

\* save_df, line 420: the staged file is renamed to its object path
SaveDfRename ==
    /\ pc = "df_rename"
    /\ LET r == Rename(Objs, Tmp, op.fullname, op.filehash)
       IN roots' = [roots EXCEPT ![_pkg_dir].objs = r.objs, ![_pkg_dir].tmp = r.tmp]
    /\ Return("ok")
    /\ pub' = Append(pub, Published)
    /\ UNCHANGED <<user, package, located, out, _path, _pkg_dir, op, nops, onlySaves, dirVars, hashVars, cfgVars, raceVars>>

\* a dump with the keys in sorted order
DumpSorted(fs, package_dir, contents) ==
    [fs EXCEPT ![package_dir].manifest = SortKeys(contents)]

\* install, lines 213-214: json.dump of the contents as they were passed
DumpContents(fs, package_dir, contents) ==
    [fs EXCEPT ![package_dir].manifest = contents]

\* install, lines 211-214 and 250-260: the write path, the manifest is dumped
\* as given, and the leaves are visited in the order of the dicts
InstallBegin ==
    /\ pc = "idle"
    /\ nops < MaxOps
    /\ \E contents \in InstallContents :
        LET fw == FindPathWrite(roots, start)
        IN /\ roots' = DumpContents(fw.fs, fw.package_dir, contents)
           /\ _path' = fw.package_dir
           /\ _pkg_dir' = fw.package_dir
           /\ op' = [NoOp EXCEPT !.kind = "install", !.contents = contents,
                         !.work = LeafHashes(contents)]
    /\ pc' = "in_fetch"
    /\ nops' = nops + 1
    /\ onlySaves' = FALSE
    /\ UNCHANGED <<user, package, located, out, result, pub, dirVars, hashVars, cfgVars, raceVars>>

\* install_table, lines 224-237: the next download hash is requested (and
\* noted in op.fetched, the requests made by this install); a
\* response that is not ok raises, else the object path is opened for writing,
\* which creates or truncates it.  With no hash left install returns.
InstallFetch ==
    /\ pc = "in_fetch"
    /\ IF op.work = <<>>
       THEN /\ Return("ok")
            /\ UNCHANGED <<roots, op>>
       ELSE \/ /\ Return("Download failed")
               /\ op' = [op EXCEPT !.fetched = Append(@, Head(op.work))]
               /\ UNCHANGED roots
            \/ \E body \in DownloadBodies :
                /\ roots' = WithObjs(WriteFile(Objs, Head(op.work), <<>>))
                /\ op' = [op EXCEPT !.body = body,
                                    !.fetched = Append(@, Head(op.work))]
                /\ pc' = "in_write"
                /\ UNCHANGED result
    /\ UNCHANGED <<user, package, located, out, _path, _pkg_dir, nops, pub, onlySaves, dirVars, hashVars, cfgVars, raceVars>>

\* install_table, lines 240-242: the next chunk of the response is written
InstallWrite ==
    /\ pc = "in_write"
    /\ Len(Objs[Head(op.work)]) < Len(op.body)
    /\ roots' = WithObjs(WriteFile(Objs, Head(op.work),
                     SubSeq(op.body, 1, Len(Objs[Head(op.work)]) + 1)))
    /\ UNCHANGED <<user, package, located, out, _path, _pkg_dir, pc, op, result, nops, pub,
                   onlySaves, dirVars, hashVars, cfgVars, raceVars>>

\* the mismatching file is left where it was written
KeepMismatch(objs, download_hash) == objs

\* what install_table does with a written file whose digest is not the expected
\* one: os.remove
DropMismatch(objs, download_hash) == RemoveFile(objs, download_hash)

\* install_table, lines 244-248: the written file is digested; on a mismatch
\* it is removed and install raises, else the loop goes on
InstallVerify ==
    /\ pc = "in_write"
    /\ Len(Objs[Head(op.work)]) = Len(op.body)
    /\ IF digest_file(Objs[Head(op.work)]) # Head(op.work)
       THEN /\ roots' = WithObjs(DropMismatch(Objs, Head(op.work)))
            /\ Return("Mismatched hash")
            /\ UNCHANGED op
       ELSE /\ op' = [op EXCEPT !.work = Tail(@)]
            /\ pc' = "in_fetch"
            /\ UNCHANGED <<roots, result>>
    /\ UNCHANGED <<user, package, located, out, _path, _pkg_dir, nops, pub, onlySaves, dirVars, hashVars, cfgVars, raceVars>>

\* clear_contents: os.remove raises when the manifest file is not there, and
\* then self._path is left as it was
ClearContents ==
    /\ pc = "idle"
    /\ nops < MaxOps
    /\ op' = [NoOp EXCEPT !.kind = "clear_contents"]
    /\ nops' = nops + 1
    /\ onlySaves' = FALSE
    /\ pc' = "idle"
    /\ IF _path # None /\ ~ManifestExists(roots, _path)
       THEN /\ result' = "OSError"
            /\ UNCHANGED <<roots, _path>>
       ELSE /\ result' = "ok"
            /\ _path' = None
            /\ roots' = IF _path # None
                        THEN [roots EXCEPT ![_path].manifest = NoFile]
                        ELSE roots
    /\ UNCHANGED <<user, package, located, out, _pkg_dir, pub, dirVars, hashVars, cfgVars, raceVars>>

\* exists(): whether self._path is set
exists == _path # None

RECURSIVE join(_, _)
\* sep.join(segs)
join(sep, segs) ==
    IF segs = <<>> THEN <<>>
    ELSE IF Len(segs) = 1 THEN segs[1]
    ELSE segs[1] \o <<sep>> \o join(sep, Tail(segs))

RECURSIVE GetWalk(_, _, _)
\* the loop of get, lines 170-177: the node name is appended to path_so_far,
\* then looked up among the children of ptr; a node without children raises
\* AttributeError, a name that is not a key raises the store error whose text
\* carries "/".join(path_so_far)
GetWalk(ptr, ipath, path_so_far) ==
    IF ipath = <<>> THEN [err |-> "ok", node |-> ptr, path |-> <<>>]
    ELSE IF ~HasChildren(ptr)
    THEN [err |-> "AttributeError", node |-> NoFile, path |-> <<>>]
    ELSE IF ~HasKey(ptr.children, Head(ipath))
    THEN [err |-> "Key Not Found", node |-> NoFile,
          path |-> join("/", Append(path_so_far, Head(ipath)))]
    ELSE GetWalk(GetChild(ptr.children, Head(ipath)), Tail(ipath),
                 Append(path_so_far, Head(ipath)))

\* the segments of the path handed to get, lines 166-167
GetSegments(path) ==
    IF lstrip(path, "/") = <<>> THEN <<>> ELSE split(lstrip(path, "/"), "/")

\* what get_contents() on the handle gives its caller: with self._path None
\* the open raises TypeError, which the except clause does not catch
GetContentsOut ==
    IF _path = None
    THEN [NoOut EXCEPT !.call = "get_contents", !.err = "TypeError"]
    ELSE [NoOut EXCEPT !.call = "get_contents", !.err = "ok",
                       !.node = get_contents(roots, _path)]

\* what get(path) on the handle gives its caller
get(path) ==
    IF ~exists
    THEN [NoOut EXCEPT !.call = "get", !.arg = path, !.err = "Package not found"]
    ELSE LET r == GetWalk(get_contents(roots, _path), GetSegments(path), <<>>)
         IN [call |-> "get", arg |-> path, err |-> r.err, node |-> r.node,
             path |-> r.path]

\* get_contents() is called between two operations; nothing changes but what
\* the caller holds
GetContents ==
    /\ pc = "idle"
    /\ nops < MaxOps
    /\ out' = GetContentsOut
    /\ pc' = "read"
    /\ UNCHANGED <<roots, user, package, _path, _pkg_dir, op, result, nops, pub,
                   onlySaves, located, dirVars, hashVars, cfgVars, raceVars>>

\* get(path) is called between two operations
Get ==
    /\ pc = "idle"
    /\ nops < MaxOps
    /\ \E path \in GetPaths : out' = get(path)
    /\ pc' = "read"
    /\ UNCHANGED <<roots, user, package, _path, _pkg_dir, op, result, nops, pub,
                   onlySaves, located, dirVars, hashVars, cfgVars, raceVars>>

\* the caller is done with what the read gave it
ReadDone ==
    /\ pc = "read"
    /\ out' = NoOut
    /\ pc' = "idle"
    /\ UNCHANGED <<roots, user, package, _path, _pkg_dir, op, result, nops, pub,
                   onlySaves, located, dirVars, hashVars, cfgVars, raceVars>>

Next ==
    \/ Open
    \/ SaveFileBegin
    \/ SaveFileAdd
    \/ SaveFileCheck
    \/ SaveFileCopy
    \/ SaveDfBegin
    \/ SaveDfAdd
    \/ SaveDfRename
    \/ InstallBegin
    \/ InstallFetch
    \/ InstallWrite
    \/ InstallVerify
    \/ ClearContents
    \/ GetContents
    \/ Get
    \/ ReadDone

Spec == Init /\ [][Next]_vars

-----------------------------------------------------------------------------
(* Properties of the store operations, checked under Spec *)

Saves == {"save_file", "save_df"}

\* the last operation on the handle has returned or raised
Returned(kinds) == pc = "idle" /\ op.kind \in kinds

RECURSIVE ReferencedDigests(_)
\* the digests of the Table and File leaves of a tree, at any depth
ReferencedDigests(node) ==
    IF node.type = "GROUP"
    THEN UNION {ReferencedDigests(node.children[i][2]) : i \in 1..Len(node.children)}
    ELSE {node.hashes[i] : i \in 1..Len(node.hashes)}

RECURSIVE NodeKeys(_)
\* the names of the nodes of a tree, at any depth
NodeKeys(node) ==
    IF node.type = "GROUP"
    THEN {node.children[i][1] : i \in 1..Len(node.children)}
         \cup UNION {NodeKeys(node.children[i][2]) : i \in 1..Len(node.children)}
    ELSE {}

\* the naming rule: a letter, then letters, digits or underscores, nothing else
NameRule(s) ==
    /\ Len(s) >= 1
    /\ s[1] \in Letters
    /\ \A i \in 2..Len(s) : s[i] \in Letters \cup Digits \cup {"_"}

\* C1: every file present under objs/<digest>, in every state between two
\* filesystem steps, holds complete content whose digest is <digest>
ObjectsComplete ==
    \A d \in DOMAIN roots : \A h \in DOMAIN roots[d].objs :
        digest_file(roots[d].objs[h]) = h

\* C2: a file that exists under objs/<digest> is never rewritten, truncated or
\* removed by a later step of save_file, save_df or install
ObjectsImmutable ==
    [][\A d \in DOMAIN roots : \A h \in DOMAIN roots[d].objs :
           /\ d \in DOMAIN roots'
           /\ h \in DOMAIN roots'[d].objs
           /\ roots'[d].objs[h] = roots[d].objs[h]]_vars

\* C3: two saves of the same content return the same digest, and when the
\* second has returned the object directory holds that content in exactly one
\* object file, under its digest, and no staged copy of it is left
PublishIdempotent ==
    \A i, j \in 1..Len(pub) :
        (i < j /\ pub[i].content = pub[j].content) =>
            /\ pub[i].digest = pub[j].digest
            /\ (j = Len(pub) /\ Returned(Saves) /\ result = "ok") =>
                  /\ {h \in DOMAIN Objs : Objs[h] = pub[j].content} = {pub[i].digest}
                  /\ op.kind = "save_df" => op.fullname \notin DOMAIN roots[_pkg_dir].tmp

\* C3 witness: the same content was saved twice under different node names,
\* the second time by save_df, and the second save has returned
PublishedTwice ==
    /\ Returned({"save_df"})
    /\ result = "ok"
    /\ Len(pub) = 2
    /\ pub[1].content = pub[2].content
    /\ pub[1].name # pub[2].name

\* C4: after saves that all returned normally, every digest a manifest on disk
\* lists has an object file in the object directory of the same root
ManifestObjectsPresent ==
    (onlySaves /\ pc = "idle") =>
        \A d \in DOMAIN roots :
            ReferencedDigests(roots[d].manifest) \subseteq DOMAIN roots[d].objs

\* C4 witness: two saves have returned and the manifest lists two digests
TwoNodesSaved ==
    /\ onlySaves
    /\ pc = "idle"
    /\ Len(pub) = 2
    /\ Cardinality(ReferencedDigests(roots[_pkg_dir].manifest)) = 2

\* C5: when the file install wrote for an expected digest has another digest,
\* the next step raises the integrity error and leaves no file at that path
MismatchRaisesAndRemoves ==
    [][(/\ pc = "in_write"
        /\ Len(Objs[Head(op.work)]) = Len(op.body)
        /\ digest_file(op.body) # Head(op.work))
       => (/\ pc' = "idle"
           /\ result' = "Mismatched hash"
           /\ Head(op.work) \notin DOMAIN roots'[_pkg_dir].objs)]_vars

\* C5 witness: install has raised the integrity error and no file is at the
\* path of the expected digest
MismatchRaised ==
    /\ Returned({"install"})
    /\ result = "Mismatched hash"
    /\ digest_file(op.body) # Head(op.work)
    /\ Head(op.work) \notin DOMAIN Objs

NodeNamesValidated ==
    /\ (Returned(Saves) /\ \E i \in 1..Len(split(op.fullname, ".")) :
                               ~NameRule(split(op.fullname, ".")[i]))
           => result = "Invalid node name"
    /\ \A d \in DOMAIN roots : \A k \in NodeKeys(roots[d].manifest) : NameRule(k)

-----------------------------------------------------------------------------
(* The directory resolver on its own: find_package_dirs as a generator *)

\* the directory names a starting directory is made of
DirNames == {"x", PACKAGE_DIR_NAME}

\* the canonical absolute paths of depth n or less
RECURSIVE PathsUpTo(_)
PathsUpTo(n) ==
    IF n = 0 THEN {<<>>}
    ELSE PathsUpTo(n - 1)
         \cup {Append(p, c) : p \in {q \in PathsUpTo(n - 1) : Len(q) = n - 1}, c \in DirNames}

\* the starting directory and its ancestors, the filesystem root included
Ancestors(path) == {SubSeq(path, 1, k) : k \in 0..Len(path)}

\* the handle's variables, at rest while the resolver or the hash is studied
NoHandle ==
    /\ user = UserName
    /\ package = PackageName
    /\ _path = None
    /\ _pkg_dir = None
    /\ pc = "none"
    /\ op = NoOp
    /\ result = "none"
    /\ nops = 0
    /\ pub = <<>>
    /\ onlySaves = TRUE
    /\ located = FALSE
    /\ out = NoOut

NoHashCheck ==
    /\ calls = [A |-> {}, B |-> {}]
    /\ todoA = {}
    /\ todoB = {}
    /\ treeA = GroupNode(<<>>)
    /\ treeB = GroupNode(<<>>)

\* any starting directory, with marker directories under any of its ancestors;
\* a marker directory the starting path runs through exists
InitDirs ==
    /\ start \in PathsUpTo(MaxDepth)
    /\ \E marked \in SUBSET Ancestors(start) :
        /\ \A k \in 1..Len(start) :
               start[k] = PACKAGE_DIR_NAME => SubSeq(start, 1, k - 1) \in marked
        /\ roots = [d \in {Append(p, PACKAGE_DIR_NAME) : p \in marked} |-> EmptyRoot]
    /\ gen = [path |-> start, yielded |-> <<>>, done |-> FALSE]
    /\ NoHandle
    /\ NoHashCheck
    /\ NoCfg

\* one iteration of the loop of find_package_dirs, lines 74-82
GenStep ==
    /\ ~gen.done
    /\ gen' = [path |-> SplitPath(gen.path).parent,
               yielded |-> gen.yielded \o YieldAt(gen.path, DOMAIN roots),
               done |-> SplitPath(gen.path).parent = gen.path]
    /\ UNCHANGED <<storeVars, start, hashVars, cfgVars, raceVars>>

NextDirs == GenStep

\* the consumer's loop runs the generator until it is exhausted
SpecDirs == InitDirs /\ [][NextDirs]_vars /\ WF_vars(GenStep)

\* the ancestors of the starting directory (itself included) that are not
\* themselves named like the marker and have a marker subdirectory
MarkedAncestors ==
    {p \in Ancestors(start) :
        /\ SplitPath(p).name # PACKAGE_DIR_NAME
        /\ Append(p, PACKAGE_DIR_NAME) \in DOMAIN roots}

\* C10: the generator terminates, and what it has yielded then is exactly the
\* marker subdirectory of every such ancestor, nearest first, each once
FindPackageDirsCorrect ==
    /\ <>(gen.done)
    /\ [](gen.done =>
            /\ {gen.yielded[i] : i \in 1..Len(gen.yielded)}
                   = {Append(p, PACKAGE_DIR_NAME) : p \in MarkedAncestors}
            /\ \A i, j \in 1..Len(gen.yielded) :
                   i < j => Len(gen.yielded[i]) > Len(gen.yielded[j])
            /\ gen.yielded = find_package_dirs(start, DOMAIN roots))

\* C10 witness: the generator is exhausted and has yielded the marker
\* directories of two ancestor levels, having skipped one below a marker
YieldedTwoLevels ==
    /\ gen.done
    /\ Len(gen.yielded) >= 2
    /\ \E p \in Ancestors(start) :
           /\ SplitPath(p).name = PACKAGE_DIR_NAME
           /\ Append(p, PACKAGE_DIR_NAME) \in DOMAIN roots

-----------------------------------------------------------------------------
(* Name validation on its own: opening a handle for any user and package *)

NameChars == {"a", "1", "_", "-", "\n"}

\* the strings of length n or less
RECURSIVE StringsUpTo(_)
StringsUpTo(n) ==
    IF n = 0 THEN {<<>>}
    ELSE StringsUpTo(n - 1)
         \cup {Append(t, c) : t \in {q \in StringsUpTo(n - 1) : Len(q) = n - 1}, c \in NameChars}

InitName ==
    /\ NoCfg
    /\ user \in StringsUpTo(MaxNameLen)
    /\ package \in StringsUpTo(MaxNameLen)
    /\ roots \in InitRoots
    /\ _path = None
    /\ _pkg_dir = None
    /\ pc = "new"
    /\ op = NoOp
    /\ result = "none"
    /\ nops = 0
    /\ pub = <<>>
    /\ onlySaves = TRUE
    /\ located = FALSE
    /\ out = NoOut
    /\ start = Cwd
    /\ gen = NoGen
    /\ NoHashCheck

NextName == Open

SpecName == InitName /\ [][NextName]_vars

\* C8: opening a handle raises the invalid-name error exactly when the user
\* name or the package name breaks the naming rule
InvalidNameIffRuleBroken ==
    pc \in {"idle", "failed"} =>
        ((pc = "failed" /\ result \in {"Invalid user name", "Invalid package name"})
            <=> (~NameRule(user) \/ ~NameRule(package)))

-----------------------------------------------------------------------------
(* The package hash: two packages built by add_node calls, compared *)

\* dotted names handed to add_node: "a", "b", "b.c", "b.a"
HashNames == {<<"a">>, <<"b">>, <<"b", ".", "c">>, <<"b", ".", "a">>}

\* the other arguments of add_node: a file, a table, and the file again with
\* another source path
LeafArgs ==
    { [objhash |-> digest_file(<<1>>), ext |-> "", path |-> "data.csv", target |-> "file"],
      [objhash |-> digest_file(<<1, 2>>), ext |-> "csv", path |-> "data.csv", target |-> "pandas"],
      [objhash |-> digest_file(<<1>>), ext |-> "", path |-> "other.csv", target |-> "file"] }

\* the sets of at most n calls with pairwise different dotted names
CallSets(n) ==
    {S \in SUBSET [fullname : HashNames, args : LeafArgs] :
        /\ S # {}
        /\ Cardinality(S) <= n
        /\ \A c1, c2 \in S : c1.fullname = c2.fullname => c1 = c2}

\* two empty packages; the calls for B name the same nodes as the calls for A
InitHash ==
    /\ \E SA \in CallSets(MaxCalls), SB \in CallSets(MaxCalls) :
        /\ {c.fullname : c \in SA} = {c.fullname : c \in SB}
        /\ calls = [A |-> SA, B |-> SB]
        /\ todoA = SA
        /\ todoB = SB
    /\ treeA = GroupNode(<<>>)
    /\ treeB = GroupNode(<<>>)
    /\ roots = NoFiles
    /\ start = Cwd
    /\ gen = NoGen
    /\ NoHandle
    /\ NoCfg

\* add_node on a manifest: _add_to_contents saves the changed tree, or raises
\* and leaves the manifest as it was
add_node(manifest, c) ==
    LET r == AddToContents(manifest, c.fullname, c.args.objhash, c.args.ext,
                           c.args.path, c.args.target)
    IN IF r.err = "ok" THEN save_contents(r.contents) ELSE manifest

\* the next call on package A, in any order
AddNodeA ==
    /\ \E c \in todoA :
        /\ treeA' = add_node(treeA, c)
        /\ todoA' = todoA \ {c}
    /\ UNCHANGED <<storeVars, dirVars, calls, todoB, treeB, cfgVars, raceVars>>

\* then the calls on package B, in any order
AddNodeB ==
    /\ todoA = {}
    /\ \E c \in todoB :
        /\ treeB' = add_node(treeB, c)
        /\ todoB' = todoB \ {c}
    /\ UNCHANGED <<storeVars, dirVars, calls, todoA, treeA, cfgVars, raceVars>>

NextHash == AddNodeA \/ AddNodeB

SpecHash == InitHash /\ [][NextHash]_vars

\* get_hash on a package whose manifest is `manifest`
get_hash(manifest) == hash_contents(manifest)

RECURSIVE TreeFacts(_, _)
\* what a tree says: for every node, its path, its variant, its digests and
\* its metadata
TreeFacts(node, prefix) ==
    {[path |-> prefix, type |-> node.type, hashes |-> node.hashes,
      metadata |-> node.metadata]}
    \cup UNION {TreeFacts(node.children[i][2], Append(prefix, node.children[i][1])) :
                   i \in 1..Len(node.children)}

-----------------------------------------------------------------------------
(* Properties of the reads, of add_node, of install's order of steps and of *)
(* the choice of the root, checked under Spec                               *)

\* the handle has no manifest file to read: it was opened without one being
\* found, or clear_contents reset it, or its write path holds no manifest
NoManifestFile == _path = None \/ ~ManifestExists(roots, _path)

\* C11: get_contents() called while no manifest file exists for the package
\* returns an empty group and raises nothing
GetContentsEmptyWithoutManifest ==
    (pc = "read" /\ out.call = "get_contents" /\ NoManifestFile) =>
        /\ out.err = "ok"
        /\ out.node = GroupNode(<<>>)

\* a step leaves every manifest file and every object directory as it was; a
\* root made by the step has no manifest and no object
SameManifestsAndObjects ==
    \A d \in DOMAIN roots' :
        /\ roots'[d].manifest = (IF d \in DOMAIN roots THEN roots[d].manifest ELSE NoFile)
        /\ roots'[d].objs = (IF d \in DOMAIN roots THEN roots[d].objs ELSE NoFiles)

\* C12: a save_file or save_df whose target is not a known kind ends, at its
\* add_node step, with the 'unrecognized target' error, and no step of the
\* call changes a manifest file or adds an object
UnrecognizedTargetRejected ==
    [][(/\ pc \in {"idle", "sf_add", "df_add"}
        /\ op'.kind \in Saves
        /\ op'.target \notin TargetType)
       => (/\ SameManifestsAndObjects
           /\ pc \in {"sf_add", "df_add"} =>
                  (pc' = "idle" /\ result' = "Unrecognized target"))]_vars

RECURSIVE NodeAt(_, _)
\* the node a tree holds at a path of segments; the absent node when it holds none
NodeAt(node, segs) ==
    IF segs = <<>> THEN node
    ELSE IF node.type # "GROUP" THEN NoFile
    ELSE LET hits == {i \in 1..Len(node.children) : node.children[i][1] = Head(segs)}
         IN IF hits = {} THEN NoFile
            ELSE NodeAt(node.children[CHOOSE i \in hits : TRUE][2], Tail(segs))

\* the step of save_file or save_df in which add_node succeeds
AddNodeSucceeds == pc \in {"sf_add", "df_add"} /\ pc' \in {"sf_check", "df_rename"}

\* C13: after a successful add_node the manifest on disk holds, at the path of
\* the dotted name, a Table (target pandas) or File (target file) leaf whose
\* digest list is the digest alone and whose metadata is the extension, the
\* source path and the target; every segment above it is a Group, and one that
\* the manifest did not hold before holds nothing but the next segment
AddNodeSetsLeaf ==
    [][AddNodeSucceeds =>
        LET segs == split(op.fullname, ".")
            before == get_contents(roots, _path)
            after == roots'[_path].manifest
            leaf == NodeAt(after, segs)
        IN /\ leaf.type = (IF op.target = "pandas" THEN "TABLE" ELSE "FILE")
           /\ op.target \in {"pandas", "file"}
           /\ leaf.hashes = <<op'.filehash>>
           /\ leaf.metadata = [q_ext |-> op.ext, q_path |-> op.path,
                               q_target |-> op.target]
           /\ \A n \in 1..(Len(segs) - 1) :
                  /\ NodeAt(after, SubSeq(segs, 1, n)).type = "GROUP"
                  /\ NodeAt(before, SubSeq(segs, 1, n)).type = "ABSENT" =>
                         Len(NodeAt(after, SubSeq(segs, 1, n)).children) = 1]_vars

\* C13 witness: save_df has just put a Table leaf at b.c, where an earlier save
\* had put a leaf with another digest below the group b it created
LeafReplacedInGroup ==
    /\ pc = "df_rename"
    /\ op.fullname = <<"b", ".", "c">>
    /\ Len(pub) = 1
    /\ pub[1].name = op.fullname
    /\ pub[1].digest # op.filehash
    /\ NodeAt(roots[_path].manifest, <<(<<"b">>), (<<"c">>)>>).hashes = <<op.filehash>>

\* how many leading segments of a path a tree holds
Matched(tree, segs) ==
    CHOOSE n \in 0..Len(segs) :
        /\ NodeAt(tree, SubSeq(segs, 1, n)).type # "ABSENT"
        /\ n < Len(segs) => NodeAt(tree, SubSeq(segs, 1, n + 1)).type = "ABSENT"

\* C14: get(path) on an existing package, for a path with a segment that is not
\* a child of the node reached, raises the path-not-found error, and the path
\* the error reports is the matched one: the segments before the missing one
GetReportsMatchedPath ==
    (pc = "read" /\ out.call = "get" /\ exists) =>
        LET tree == get_contents(roots, _path)
            segs == GetSegments(out.arg)
            n == Matched(tree, segs)
        IN n < Len(segs) =>
               /\ out.err = "Key Not Found"
               /\ out.path = join("/", SubSeq(segs, 1, n))

\* get(path) never returns a node for a path with a missing segment
GetNeverReturnsMissing ==
    (pc = "read" /\ out.call = "get" /\ exists) =>
        LET tree == get_contents(roots, _path)
            segs == GetSegments(out.arg)
        IN Matched(tree, segs) < Len(segs) => out.err # "ok"

\* C15: between operations, whatever calls were made on the handle and however
\* they ended, exists() is true exactly when the resolver located the manifest
\* as the handle was opened; get() on a handle opened without a manifest
\* raises the 'not found' error
ExistsIffLocatedAtOpen ==
    /\ pc \in {"idle", "read"} => (exists <=> located)
    /\ (pc = "read" /\ out.call = "get" /\ ~located) => out.err = "Package not found"

\* install is running, or it was the last operation and has ended
InInstall == op.kind = "install" /\ pc \in {"in_fetch", "in_write", "idle", "read"}

\* C17: from the moment install may start its first fetch, through every later
\* step and after it ended, normally or with an error, the manifest on disk is
\* the contents that were passed to install
InstallManifestFirst ==
    InInstall => roots[_path].manifest = op.contents

\* C17 witness: install has raised at its second fetch; the manifest on disk is
\* the one passed and lists a digest that has no object
InstallFailedManifestKept ==
    /\ Returned({"install"})
    /\ result = "Download failed"
    /\ Len(op.fetched) = 2
    /\ roots[_path].manifest = op.contents
    /\ \E h \in ReferencedDigests(roots[_path].manifest) : h \notin DOMAIN Objs

\* the digests this install has fetched and verified so far
InstallVerified ==
    LET all == LeafHashes(op.contents)
    IN {all[i] : i \in 1..(Len(all) - Len(op.work))}

\* the digest install is fetching, if any is left
InstallCurrent == IF op.work = <<>> THEN {} ELSE {Head(op.work)}

\* C18: a step of install creates, changes or removes no object file but the
\* one of the digest being fetched, it leaves the objects that this install
\* fetched and verified earlier as they are, and after the step that raises
\* nothing was requested beyond the digest that failed
InstallFailFast ==
    [][(op.kind = "install" /\ pc \in {"in_fetch", "in_write"}) =>
        /\ \A h \in (DOMAIN Objs \cup DOMAIN roots'[_pkg_dir].objs) \ InstallCurrent :
               /\ h \in DOMAIN Objs
               /\ h \in DOMAIN roots'[_pkg_dir].objs
               /\ roots'[_pkg_dir].objs[h] = Objs[h]
        /\ \A h \in InstallVerified :
               /\ h \in DOMAIN roots'[_pkg_dir].objs
               /\ roots'[_pkg_dir].objs[h] = Objs[h]
        /\ (pc' = "idle" /\ result' # "ok") =>
               /\ op'.fetched = SubSeq(LeafHashes(op.contents), 1, Len(op'.fetched))
               /\ op'.fetched[Len(op'.fetched)] = Head(op'.work)]_vars

\* C19: when install returns normally it has requested every distinct digest
\* of the manifest exactly once, whether or not the object was there before
InstallFetchesEachDigestOnce ==
    (Returned({"install"}) /\ result = "ok") =>
        \A h \in ReferencedDigests(op.contents) :
            Cardinality({i \in 1..Len(op.fetched) : op.fetched[i] = h}) = 1

\* when install returns normally it has requested every digest at least once:
\* an object that is already present does not spare the request
InstallFetchesEveryDigest ==
    (Returned({"install"}) /\ result = "ok") =>
        \A h \in ReferencedDigests(op.contents) :
            \E i \in 1..Len(op.fetched) : op.fetched[i] = h

\* of a nonempty set of marker directories on one path, the nearest one
Nearest(ds) == CHOOSE d \in ds : \A e \in ds : Len(e) <= Len(d)

\* the marker directories of the roots above the starting directory
YieldedRoots == {Append(p, PACKAGE_DIR_NAME) : p \in MarkedAncestors}

\* C20: the open binds the handle to the nearest yielded root that holds the
\* package's manifest, or to none; the first step of save_file, save_df and
\* install binds it to the nearest yielded root, or, when there is none, to a
\* fresh marker directory in the starting directory, and the user, object and
\* staging subdirectories are there afterwards, nothing else being changed
RootSelection ==
    [][/\ (pc = "new" /\ pc' = "idle") =>
            LET holders == {d \in YieldedRoots : ManifestExists(roots, d)}
            IN /\ _path' = (IF holders = {} THEN None ELSE Nearest(holders))
               /\ _pkg_dir' = _path'
               /\ roots' = roots
       /\ (pc = "idle" /\ pc' \in {"sf_add", "df_add", "in_fetch"}) =>
            LET chosen == IF YieldedRoots = {} THEN Append(start, PACKAGE_DIR_NAME)
                          ELSE Nearest(YieldedRoots)
            IN /\ _pkg_dir' = chosen
               /\ _path' = chosen
               /\ DOMAIN roots' = DOMAIN roots \cup {chosen}
               /\ {USER_DIR, OBJ_DIR, TMP_OBJ_DIR} \subseteq roots'[chosen].subdirs
               /\ chosen \notin DOMAIN roots => roots'[chosen].objs = NoFiles
               /\ \A d \in DOMAIN roots \ {chosen} : roots'[d] = roots[d]]_vars

\* C20 witness: the handle found the manifest in the farther root on opening,
\* and a save has bound it to the nearer marker directory, which held nothing,
\* and made the subdirectories there
WriteBoundToNearerRoot ==
    /\ pc = "sf_add"
    /\ located
    /\ nops = 1
    /\ ManifestExists(roots, FarDir)
    /\ _pkg_dir = NearDir
    /\ ~ManifestExists(roots, NearDir)
    /\ roots[NearDir].subdirs = {USER_DIR, OBJ_DIR, TMP_OBJ_DIR}

-----------------------------------------------------------------------------
(* get_store: the choice of the store class *)

\* the members of PackageFormat that get_store tells apart, lines 541-548
PackageFormat == {"HDF5", "FASTPARQUET", "SPARK", "ARROW"}

\* pkgformat arguments: none given, each member, a value that is no member
FormatArgs == {"None"} \cup PackageFormat \cup {"bogus"}

\* values of QUILT_PACKAGE_FORMAT in the environment
EnvValues == {"unset"} \cup PackageFormat \cup {"bogus"}

\* the optional imports of lines 15-28 that the store classes test
OptionalModules == {"fastparquet", "pyarrow"}

\* the class get_store constructs for a member of PackageFormat, lines 541-548
StoreClass(fmt) ==
    CASE fmt = "HDF5" -> "HDF5PackageStore"
      [] fmt = "FASTPARQUET" -> "FastParquetPackageStore"
      [] fmt = "SPARK" -> "SparkPackageStore"
      [] fmt = "ARROW" -> "ArrowPackageStore"

\* the module whose absence makes the constructor of a class raise
Requires(cls) ==
    CASE cls \in {"FastParquetPackageStore", "SparkPackageStore"} -> {"fastparquet"}
      [] cls = "ArrowPackageStore" -> {"pyarrow"}
      [] OTHER -> {}

\* get_store is about to be called for a valid user and package
InitStore ==
    /\ pkgformat \in FormatArgs
    /\ environ \in EnvValues
    /\ modules \in SUBSET OptionalModules
    /\ fmtDefault \in PackageFormat
    /\ backend = "none"
    /\ writers = <<>>
    /\ wlog = <<>>
    /\ roots \in InitRoots
    /\ user = UserName
    /\ package = PackageName
    /\ _path = None
    /\ _pkg_dir = None
    /\ pc = "call"
    /\ op = NoOp
    /\ result = "none"
    /\ nops = 0
    /\ pub = <<>>
    /\ onlySaves = TRUE
    /\ located = FALSE
    /\ out = NoOut
    /\ start = Cwd
    /\ gen = NoGen
    /\ NoHashCheck

\* get_store up to the body of PackageStore.__init__: pkg_format is bound only
\* when no pkgformat was given, so the first test of pkg_format raises
\* UnboundLocalError when one was; PackageFormat(value) raises ValueError for
\* a value that is no member; the constructor of the chosen class raises when
\* its module is missing
GetStore ==
    /\ pc = "call"
    /\ IF pkgformat # "None"
       THEN /\ pc' = "failed"
            /\ result' = "UnboundLocalError"
            /\ UNCHANGED backend
       ELSE LET value == IF environ = "unset" THEN fmtDefault ELSE environ
            IN IF value \notin PackageFormat
               THEN /\ pc' = "failed"
                    /\ result' = "ValueError"
                    /\ UNCHANGED backend
               ELSE IF ~(Requires(StoreClass(value)) \subseteq modules)
               THEN /\ pc' = "failed"
                    /\ result' = "Module is required"
                    /\ backend' = StoreClass(value)
               ELSE /\ pc' = "new"
                    /\ backend' = StoreClass(value)
                    /\ UNCHANGED result
    /\ UNCHANGED <<roots, user, package, _path, _pkg_dir, op, nops, pub, onlySaves,
                   located, out, dirVars, hashVars, environ, pkgformat, modules,
                   fmtDefault, raceVars>>

NextStore == GetStore \/ Open

SpecStore == InitStore /\ [][NextStore]_vars

\* C16: a get_store call that was given a pkgformat ends with a store of the
\* class of that format when the value is a member of PackageFormat (or with
\* the missing-module error of that class), and with the configuration error
\* when it is no member, whatever the environment holds
GetStoreFollowsPkgformat ==
    (pc \in {"idle", "failed"} /\ pkgformat # "None") =>
        IF pkgformat \in PackageFormat
        THEN /\ backend = StoreClass(pkgformat)
             /\ \/ pc = "idle" /\ result = "ok"
                \/ /\ result = "Module is required"
                   /\ ~(Requires(backend) \subseteq modules)
        ELSE result = "Not Implemented"

-----------------------------------------------------------------------------
(* Two writers: two handles bound to the same manifest path, each running  *)
(* _add_to_contents for its own leaf, with nothing to keep them apart.     *)
(* save_contents opens the path for writing, which truncates the file, and *)
(* the dump reaches the file when it is closed, written from offset 0.     *)

Writers == {1, 2}

\* a manifest file that was truncated and not yet written
EmptyFile == [type |-> "EMPTY", children |-> <<>>, hashes |-> <<>>, metadata |-> NoMeta]

\* a manifest file of len bytes that holds no single dump
Garbled(len) == [type |-> "GARBLED", children |-> <<>>, hashes |-> <<len>>, metadata |-> NoMeta]

RECURSIVE EncodedLen(_)
RECURSIVE EncodedPairsLen(_)
\* the number of bytes json.dump writes for a node: braces, and for every
\* child its key and its own encoding; the bytes of a file that holds no dump
EncodedLen(node) ==
    CASE node.type = "GROUP" -> 2 + EncodedPairsLen(node.children)
      [] node.type = "GARBLED" -> node.hashes[1]
      [] node.type \in {"EMPTY", "ABSENT"} -> 0
      [] OTHER -> 10 + Len(node.hashes)

EncodedPairsLen(children) ==
    IF children = <<>> THEN 0
    ELSE Len(children[1][1]) + 4 + EncodedLen(children[1][2])
             + EncodedPairsLen(Tail(children))

\* a write that replaces the file whatever it holds
Replace(cur, new) == new

\* the file after the bytes of `new` were written from offset 0 over what it
\* holds: a longer content keeps its tail
Overwrite(cur, new) ==
    IF EncodedLen(new) >= EncodedLen(cur) THEN new ELSE Garbled(EncodedLen(cur))

\* the root both handles are bound to, its directories made
RaceDir == NearDir

\* the dotted names the two writers add: "a", "b", "b.c"
RaceNames == {<<"a">>, <<"b">>, <<"b", ".", "c">>}

\* both handles have passed _find_path_write; the manifest is not there yet, or
\* it is the one of an earlier build; the writers add leaves of different names
InitRace ==
    /\ roots \in {WriteFile(NoFiles, RaceDir, BuiltRoot),
                  WriteFile(NoFiles, RaceDir, [BuiltRoot EXCEPT !.manifest = NoFile])}
    /\ \E n1, n2 \in RaceNames :
        /\ n1 # n2
        /\ writers = [w \in Writers |->
               [pc |-> "start", fullname |-> IF w = 1 THEN n1 ELSE n2,
                objhash |-> digest_file(IF w = 1 THEN <<1>> ELSE <<1, 2>>),
                tree |-> GroupNode(<<>>), err |-> "none"]]
    /\ wlog = <<>>
    /\ environ = "unset"
    /\ pkgformat = "None"
    /\ modules = {}
    /\ fmtDefault = "HDF5"
    /\ backend = "PackageStore"
    /\ start = Cwd
    /\ gen = NoGen
    /\ NoHandle
    /\ NoHashCheck

\* _add_to_contents, lines 347-373, of writer w: get_contents reads the file (a
\* missing one gives the empty group, one that holds no dump makes json.load
\* raise ValueError), and the tree is changed in memory
WriterRead(w) ==
    /\ writers[w].pc = "start"
    /\ LET file == roots[RaceDir].manifest
           r == AddToContents(get_contents(roots, RaceDir), writers[w].fullname,
                              writers[w].objhash, "", SrcPath, "file")
       IN writers' = [writers EXCEPT ![w] =
              IF file.type \in {"EMPTY", "GARBLED"}
              THEN [@ EXCEPT !.pc = "failed", !.err = "ValueError"]
              ELSE IF r.err # "ok"
              THEN [@ EXCEPT !.pc = "failed", !.err = r.err]
              ELSE [@ EXCEPT !.pc = "open", !.tree = r.contents]]
    /\ UNCHANGED <<storeVars, dirVars, hashVars, cfgVars, wlog>>

\* save_contents, line 156, of writer w: open(self._path, 'w') truncates
WriterOpen(w) ==
    /\ writers[w].pc = "open"
    /\ roots' = [roots EXCEPT ![RaceDir].manifest = EmptyFile]
    /\ writers' = [writers EXCEPT ![w].pc = "dump"]
    /\ UNCHANGED <<user, package, _path, _pkg_dir, pc, op, result, nops, pub,
                   onlySaves, located, out, dirVars, hashVars, cfgVars, wlog>>

\* save_contents, line 157, of writer w: the dump is written and the file closed
WriterDump(w) ==
    /\ writers[w].pc = "dump"
    /\ roots' = [roots EXCEPT ![RaceDir].manifest =
                     Overwrite(@, save_contents(writers[w].tree))]
    /\ writers' = [writers EXCEPT ![w].pc = "done"]
    /\ wlog' = Append(wlog, w)
    /\ UNCHANGED <<user, package, _path, _pkg_dir, pc, op, result, nops, pub,
                   onlySaves, located, out, dirVars, hashVars, cfgVars>>

NextRace == \E w \in Writers : WriterRead(w) \/ WriterOpen(w) \/ WriterDump(w)

SpecRace == InitRace /\ [][NextRace]_vars

\* both writers have ended
WritersEnded == \A w \in Writers : writers[w].pc \in {"done", "failed"}

\* C21: when both writers have ended, the manifest is the whole tree that the
\* writer whose save_contents ran last had built from what it read, and none
\* other: in particular no merge of the two
LastWriterWins ==
    (WritersEnded /\ wlog # <<>>) =>
        roots[RaceDir].manifest = save_contents(writers[wlog[Len(wlog)]].tree)

\* both writers read before either wrote, both saved, and the manifest holds
\* the leaf of the second to save and not the leaf of the first
LostUpdate ==
    /\ WritersEnded
    /\ Len(wlog) = 2
    /\ roots[RaceDir].manifest.type = "GROUP"
    /\ NodeAt(roots[RaceDir].manifest, split(writers[wlog[2]].fullname, ".")).type = "FILE"
    /\ NodeAt(roots[RaceDir].manifest, split(writers[wlog[1]].fullname, ".")).type = "ABSENT"

-----------------------------------------------------------------------------
(* Properties of a save as a whole *)

RECURSIVE PathsOf(_)
\* the paths, as sequences of segments, of the nodes of a tree
PathsOf(node) ==
    IF node.type # "GROUP" THEN {}
    ELSE UNION {{<<node.children[i][1]>>}
                \cup {<<node.children[i][1]>> \o p : p \in PathsOf(node.children[i][2])} :
                i \in 1..Len(node.children)}

\* path a is path b or lies above it
IsPrefix(a, b) == Len(a) <= Len(b) /\ SubSeq(b, 1, Len(a)) = a

\* the nodes the handle resolved when the save was called resolve as before
\* once add_node has saved the manifest: a node that is neither the saved name
\* nor below it is the same node, and a group above the saved name is a group
Preserved(before, after, name) ==
    \A p \in PathsOf(before) :
        ~IsPrefix(name, p) =>
            IF IsPrefix(p, name) THEN NodeAt(after, p).type = "GROUP"
            ELSE NodeAt(after, p) = NodeAt(before, p)

\* C22: on a handle opened as Found, in any directory layout, after a
\* successful save_file or save_df of name N every node that get() resolved
\* before the call and whose path is neither N nor below N resolves to the same
\* node through the same handle (the manifest is written by add_node and by no
\* later step of the save)
FramePreserved ==
    [][(AddNodeSucceeds /\ located) =>
           Preserved(get_contents(roots, op.bound), get_contents(roots', _path'),
                     split(op.fullname, "."))]_vars

\* the same, for the saves that leave the handle on the root it was bound to
FramePreservedOnSameRoot ==
    [][(AddNodeSucceeds /\ located /\ op.bound = _path) =>
           Preserved(get_contents(roots, op.bound), get_contents(roots', _path'),
                     split(op.fullname, "."))]_vars

\* no later step of a save writes the manifest
ManifestWrittenByAddNodeOnly ==
    [][(pc \in {"sf_check", "sf_copy", "df_rename"}) =>
           \A d \in DOMAIN roots : roots'[d].manifest = roots[d].manifest]_vars

\* a save is between two of its steps: the process may stop here
InSave == pc \in {"sf_add", "sf_check", "sf_copy", "df_add", "df_rename"}

\* C23: the manifest never points ahead of the object store during a save: at
\* every intermediate step of save_file and save_df, which is also the final
\* state when the copy or the rename fails or the process stops before it,
\* every digest a manifest on disk references has an object under objs/ of the
\* same root (no install or clear_contents having run on the store)
ManifestNeverAhead ==
    (onlySaves /\ InSave) =>
        \A d \in DOMAIN roots :
            ReferencedDigests(roots[d].manifest) \subseteq DOMAIN roots[d].objs

\* the manifest is behind or level with the object store until add_node runs
ManifestNotAheadBeforeAddNode ==
    (onlySaves /\ pc \in {"sf_add", "df_add"}) =>
        \A d \in DOMAIN roots :
            ReferencedDigests(roots[d].manifest) \subseteq DOMAIN roots[d].objs


====
